---------------------------- MODULE Spec2Model ----------------------------
(* A model of the nano_client Session (Connect, Close, Request and the     *)
(* CallChain) as found in the latest revision of the client, the wire      *)
(* framing it uses, and the peer at the other end of the connection.       *)
EXTENDS Integers, Sequences, FiniteSets, TLC

(***************************************************************************)
(* Bounds of the model.                                                    *)
(***************************************************************************)
\* number of goroutines calling into the one Session
NumThreads == 2
\* number of Connect/Close/Request calls started in one behaviour
MaxCalls == 4
\* the same when several threads share the Session, the Connect it starts
\* from included
MaxConcurrentCalls == 3
\* number of dials that may succeed in one behaviour
MaxHandles == 2
\* number of calls in one behaviour in which every thread goes on
MaxFairCalls == 3
\* largest pool size a configuration of the REST server asks for
MaxPool == 3
\* number of requests the REST server handles in one behaviour
MaxServed == 3
\* number of unread bytes a connection holds
MaxInbound == 24

Threads == 1..NumThreads

(***************************************************************************)
(* Program constants.                                                      *)
(***************************************************************************)
PROTOCOL_ENCODING == 0
\* 'N'
PROTOCOL_PREAMBLE_LEAD == 78
\* nano_api.APIVersion_VERSION_MAJOR / _MINOR (generated package)
VERSION_MAJOR == 1
VERSION_MINOR == 0
\* the literal the response preamble's major version is compared with
SupportedMajor == 1
DefaultTimeoutConnection == 15
DefaultTimeoutReadWrite == 30
DefaultPoolsize == 1
\* nano_api.RequestType_INVALID
RequestType_INVALID == 0

(***************************************************************************)
(* Error values. nil is NoError.                                           *)
(***************************************************************************)
NoError == [Code |-> 0, Message |-> "", Category |-> ""]

Error(code, message, category) ==
  [Code |-> code, Message |-> message, Category |-> category]

(***************************************************************************)
(* Strings as sequences of characters, for the type-name resolution.       *)
(***************************************************************************)
LowerCase == <<"a","b","c","d","e","f","g","h","i","j","k","l","m",
               "n","o","p","q","r","s","t","u","v","w","x","y","z">>
UpperCase == <<"A","B","C","D","E","F","G","H","I","J","K","L","M",
               "N","O","P","Q","R","S","T","U","V","W","X","Y","Z">>

ToUpperChar(c) ==
  IF \E i \in 1..26 : LowerCase[i] = c
  THEN UpperCase[CHOOSE i \in 1..26 : LowerCase[i] = c]
  ELSE c

\* strings.ToUpper
ToUpper(s) == [i \in 1..Len(s) |-> ToUpperChar(s[i])]

\* strings.Replace(s, old, "", 1): the first occurrence of old is removed
ReplaceFirst(s, old) ==
  LET n == Len(old)
      occ == {i \in 1..(Len(s) - n + 1) : SubSeq(s, i, i + n - 1) = old}
  IN  IF n = 0 \/ occ = {} THEN s
      ELSE LET i == CHOOSE j \in occ : \A k \in occ : j <= k
           IN  SubSeq(s, 1, i - 1) \o SubSeq(s, i + n, Len(s))

\* "nano.api.req_"
RequestPrefix == <<"n","a","n","o",".","a","p","i",".","r","e","q","_">>

\* keys of nano_api.RequestType_value (generated package)
KeyINVALID == <<"I","N","V","A","L","I","D">>
KeyPING == <<"P","I","N","G">>
KeyACCOUNT_PENDING ==
  <<"A","C","C","O","U","N","T","_","P","E","N","D","I","N","G">>

\* nano_api.RequestType_value[key]; a Go map yields 0 for a missing key
RequestType_value(key) ==
  CASE key = KeyINVALID -> 0
    [] key = KeyPING -> 1
    [] key = KeyACCOUNT_PENDING -> 2
    [] OTHER -> 0

\* the request type Request derives from the message's declared name
ResolveRequestType(name) ==
  RequestType_value(ToUpper(ReplaceFirst(name, RequestPrefix)))

(***************************************************************************)
(* Byte order of the length prefixes.                                      *)
(***************************************************************************)
LittleEndianPutUint32(n) ==
  <<n % 256, (n \div 256) % 256, (n \div 65536) % 256, (n \div 16777216) % 256>>

\* binary.BigEndian.PutUint32(buf, uint32(n))
BigEndianPutUint32(n) ==
  <<(n \div 16777216) % 256, (n \div 65536) % 256, (n \div 256) % 256, n % 256>>

LittleEndianUint32(b) == b[1] + 256 * b[2] + 65536 * b[3] + 16777216 * b[4]

\* binary.BigEndian.Uint32(buf)
BigEndianUint32(b) == b[4] + 256 * b[3] + 65536 * b[2] + 16777216 * b[1]

(***************************************************************************)
(* The wire codec: protobuf encoding of a message with one varint field    *)
(* (field number 1): ReqPing.Id, ResPing.Id, Request.Type, Response.Type.  *)
(***************************************************************************)
RECURSIVE EncodeVarint(_)
EncodeVarint(v) ==
  IF v < 128 THEN <<v>> ELSE <<128 + (v % 128)>> \o EncodeVarint(v \div 128)

RECURSIVE DecodeVarint(_)
\* [ok, value, rest]
DecodeVarint(b) ==
  IF b = <<>> THEN [ok |-> FALSE, value |-> 0, rest |-> <<>>]
  ELSE IF Head(b) < 128 THEN [ok |-> TRUE, value |-> Head(b), rest |-> Tail(b)]
  ELSE LET r == DecodeVarint(Tail(b))
       IN  [ok |-> r.ok, value |-> (Head(b) - 128) + 128 * r.value,
            rest |-> r.rest]

\* the bytes of a message whose field 1 is v (a zero field is not encoded)
Encode(v) == IF v = 0 THEN <<>> ELSE <<8>> \o EncodeVarint(v)

RECURSIVE ParseFields(_, _)
\* [ok, Id]: the fields of b merged into a message whose field 1 is id;
\* on a malformed input the fields decoded before it stay merged
ParseFields(b, id) ==
  IF b = <<>> THEN [ok |-> TRUE, Id |-> id]
  ELSE
    LET tag == DecodeVarint(b)
        field == tag.value \div 8
        wt == tag.value % 8
    IN  IF ~tag.ok \/ field = 0 THEN [ok |-> FALSE, Id |-> id]
        ELSE IF wt = 0 THEN
          LET v == DecodeVarint(tag.rest)
          IN  IF ~v.ok THEN [ok |-> FALSE, Id |-> id]
              ELSE ParseFields(v.rest, IF field = 1 THEN v.value ELSE id)
        ELSE IF wt = 2 /\ field # 1 THEN
          LET n == DecodeVarint(tag.rest)
          IN  IF ~n.ok \/ Len(n.rest) < n.value THEN [ok |-> FALSE, Id |-> id]
              ELSE ParseFields(SubSeq(n.rest, n.value + 1, Len(n.rest)), id)
        ELSE [ok |-> FALSE, Id |-> id]

\* proto.Marshal(m): [ok, data]
Marshal(m) ==
  IF m.wellFormed THEN [ok |-> TRUE, data |-> Encode(m.Id)]
  ELSE [ok |-> FALSE, data |-> <<>>]

\* proto.Unmarshal(b, m): m is reset, then the fields of b are merged
Unmarshal(b) == ParseFields(b, 0)


(***************************************************************************)
(* Inputs of the calls.                                                    *)
(***************************************************************************)
\* connection strings with what url.Parse makes of them
ConnStrings ==
  { [raw |-> "tcp://localhost:7077", parses |-> TRUE, scheme |-> "tcp",
     host |-> "localhost:7077", path |-> ""],
    [raw |-> "local:///tmp/nano", parses |-> TRUE, scheme |-> "local",
     host |-> "", path |-> "/tmp/nano"],
    [raw |-> "http://localhost:7077", parses |-> TRUE, scheme |-> "http",
     host |-> "localhost:7077", path |-> ""],
    [raw |-> "udp://localhost:7077", parses |-> TRUE, scheme |-> "udp",
     host |-> "localhost:7077", path |-> ""],
    [raw |-> ":7077", parses |-> FALSE, scheme |-> "", host |-> "",
     path |-> ""] }

\* the networks net.Dialer knows; any other name makes the dial fail
DialNetworks == {"tcp", "udp", "unix"}

NamePing == RequestPrefix \o <<"p","i","n","g">>
NameResPing ==
  <<"n","a","n","o",".","a","p","i",".","r","e","s","_","p","i","n","g">>
NameInvalid == RequestPrefix \o <<"i","n","v","a","l","i","d">>

\* request messages: a ping with Id = 1000, a ping proto.Marshal rejects,
\* a message that is no request type, and one named after the INVALID key
RequestMessages ==
  { [name |-> NamePing, Id |-> 1000, wellFormed |-> TRUE],
    [name |-> NamePing, Id |-> 0, wellFormed |-> FALSE],
    [name |-> NameResPing, Id |-> 1000, wellFormed |-> TRUE],
    [name |-> NameInvalid, Id |-> 1000, wellFormed |-> TRUE] }

\* the response message the caller supplies: empty, or already populated
ResponseMessages == { [Id |-> 0], [Id |-> 5] }

(***************************************************************************)
(* The peer: the byte streams it may answer one request with.              *)
(***************************************************************************)
Frame(b) == BigEndianPutUint32(Len(b)) \o b

Response(pre, hdr, pay) == pre \o Frame(hdr) \o Frame(pay)

PeerHeader == Encode(1)
PeerPong == Encode(1000)
GoodPreamble == <<78, 0, 1, 0>>
GoodResponse == Response(GoodPreamble, PeerHeader, PeerPong)

PeerPreambles ==
  { GoodPreamble, <<78, 0, 1, 9>>, <<78, 0, 0, 0>>, <<78, 0, 2, 0>>,
    <<78, 0, 2, 9>>, <<77, 0, 1, 0>>, <<77, 0, 2, 0>>, <<78, 1, 1, 0>> }

PeerResponses ==
  \* every preamble before well-formed frames
  { Response(p, PeerHeader, PeerPong) : p \in PeerPreambles }
  \* empty and malformed header and payload bodies
  \cup { Response(GoodPreamble, h, b) :
           h \in {<<>>, PeerHeader, <<7>>}, b \in {<<>>, PeerPong, <<8, 232>>} }
  \* the stream ends or stalls before the response is complete
  \cup { SubSeq(GoodResponse, 1, k) : k \in 0..(Len(GoodResponse) - 1) }
  \* a payload length that declares more than arrives, and trailing bytes
  \cup { GoodPreamble \o Frame(<<>>) \o <<2, 0, 0, 0>> \o Encode(1),
         GoodResponse \o Encode(1) }

\* the inputs and the answers of the peer when several threads share the
\* Session
CoreConnStrings == {c \in ConnStrings : c.scheme \in {"tcp", "http"}}

CoreRequestMessages == {m \in RequestMessages : m.wellFormed}

CoreResponseMessages == {[Id |-> 5]}

CorePeerResponses ==
  { GoodResponse, SubSeq(GoodResponse, 1, 9),
    Response(<<78, 0, 2, 0>>, PeerHeader, PeerPong) }

(***************************************************************************)
(* State.                                                                  *)
(***************************************************************************)
VARIABLES
  mutex,             \* Session.mutex: 0, or the thread holding it
  connection,        \* Session.connection: 0 (nil), or a handle
  Connected,         \* Session.Connected
  TimeoutReadWrite,  \* Session.TimeoutReadWrite
  TimeoutConnection, \* Session.TimeoutConnection
  open,              \* the handles that are open
  dialed,            \* the number of handles dialed so far
  inbound,           \* per handle, the bytes that arrived and were not read
  calls,             \* the number of calls started
  wire,              \* the calls whose reads and writes hit a connection, in order
  pc,                \* per thread, where it is
  frame,             \* per thread, the locals of its call
  LastError,         \* Session.LastError of the Session that has Query
  Poolsize,          \* RestServer.conf.Node.Poolsize
  sessions,          \* RestServer.sessions: the Connected flag of each
  nextsession,       \* RestServer.nextsession
  server             \* where the REST server is, and the locals of its call

session == <<connection, Connected, TimeoutReadWrite, TimeoutConnection>>
network == <<open, dialed, inbound>>
gateway == <<Poolsize, sessions, nextsession, server>>
client == <<mutex, connection, Connected, TimeoutReadWrite, TimeoutConnection,
            open, dialed, inbound, calls, wire, pc, frame>>
vars == <<mutex, connection, Connected, TimeoutReadWrite, TimeoutConnection,
          open, dialed, inbound, calls, wire, pc, frame,
          LastError, Poolsize, sessions, nextsession, server>>

EmptyFrame ==
  [ op |-> "none",
    \* Connect
    connError |-> NoError, con |-> 0, dialFailed |-> FALSE,
    parses |-> TRUE, scheme |-> "",
    \* Request: its arguments
    request |-> [name |-> <<>>, Id |-> 0, wellFormed |-> TRUE],
    response |-> [Id |-> 0],
    \* Request and Close: the *Error returned (line 461, line 405)
    err |-> NoError,
    \* Request: the error declared inside the connected branch (line 467)
    errInner |-> NoError,
    \* Request: CallChain.err
    sc |-> NoError,
    requestType |-> 0,
    preamble |-> <<0, 0, 0, 0>>, bufLen |-> <<0, 0, 0, 0>>,
    headerData |-> <<>>, msgBuffer |-> <<>>,
    bufResponseHeader |-> <<>>, bufResponse |-> <<>>,
    \* history of the call
    callId |-> 0, sawConnected |-> FALSE, response0 |-> [Id |-> 0],
    ops |-> <<>>, afterLen |-> <<>>,
    \* Connect: the call found a Session that Close has closed
    closed |-> FALSE ]

\* the Session is one that Close has closed
Closed == ~Connected /\ connection # 0 /\ connection \notin open

\* the REST server before listen(): conf as the defaults set it
EmptyServer ==
  [pc |-> "start", i |-> 0, err |-> FALSE, from |-> "", gets |-> 0,
   next |-> 0, result |-> ""]

ServerNotStarted ==
  /\ Poolsize = DefaultPoolsize
  /\ sessions = <<>>
  /\ nextsession = 0
  /\ server = EmptyServer

Init ==
  /\ LastError = NoError
  /\ ServerNotStarted
  /\ mutex = 0
  /\ connection = 0
  /\ Connected = FALSE
  /\ TimeoutReadWrite = 0
  /\ TimeoutConnection = 0
  /\ open = {}
  /\ dialed = 0
  /\ inbound = [h \in 1..MaxHandles |-> <<>>]
  /\ calls = 0
  /\ wire = <<>>
  /\ pc = [t \in Threads |-> "idle"]
  /\ frame = [t \in Threads |-> EmptyFrame]

Goto(t, label) == pc' = [pc EXCEPT ![t] = label]

SetFrame(t, f) == frame' = [frame EXCEPT ![t] = f]

\* sync.Mutex: Lock proceeds only when nobody holds the mutex
LockAlwaysAvailable == TRUE
LockAvailable == mutex = 0

(***************************************************************************)
(* Session.Connect. It does not take the mutex.                            *)
(***************************************************************************)
\* the network Connect dials: "local" becomes "unix", the rest is kept
DialNetwork(cs) == IF cs.scheme = "local" THEN "unix" ELSE cs.scheme

SchemeAccepted(scheme) == scheme = "local" \/ scheme = "tcp"

\* whether dialContext may succeed
DialOutcomes(net) ==
  IF net \in DialNetworks /\ dialed < MaxHandles THEN {TRUE, FALSE} ELSE {FALSE}

\* Connect up to and including the dial
ConnectCall(t, cs, limit) ==
  /\ pc[t] = "idle"
  /\ calls < limit
  /\ calls' = calls + 1
  /\ IF ~cs.parses
     THEN /\ SetFrame(t, [EmptyFrame EXCEPT !.op = "Connect",
                 !.parses = FALSE, !.closed = Closed,
                 !.connError = Error(1, "Invalid connection string", "Connection")])
          /\ Goto(t, "ConnectReturn")
          /\ UNCHANGED <<TimeoutConnection, TimeoutReadWrite, open, dialed>>
     ELSE /\ TimeoutConnection' =
               IF TimeoutConnection = 0 THEN DefaultTimeoutConnection
               ELSE TimeoutConnection
          /\ TimeoutReadWrite' =
               IF TimeoutReadWrite = 0 THEN DefaultTimeoutReadWrite
               ELSE TimeoutReadWrite
          /\ \E ok \in DialOutcomes(DialNetwork(cs)) :
               /\ dialed' = IF ok THEN dialed + 1 ELSE dialed
               /\ open' = IF ok THEN open \cup {dialed + 1} ELSE open
               /\ SetFrame(t, [EmptyFrame EXCEPT !.op = "Connect",
                      !.scheme = cs.scheme, !.closed = Closed,
                      !.connError =
                        IF SchemeAccepted(cs.scheme) THEN NoError
                        ELSE Error(1, "Invalid schema: Use tcp or local.", "Connection"),
                      !.con = IF ok THEN dialed + 1 ELSE 0,
                      !.dialFailed = ~ok])
          /\ Goto(t, "ConnectStore")
  /\ UNCHANGED <<mutex, connection, Connected, inbound, wire>>
  /\ UNCHANGED <<LastError, gateway>>

\* the dial failed: connError and Connected = false; else s.connection = con
ConnectStore(t) ==
  /\ pc[t] = "ConnectStore"
  /\ IF frame[t].dialFailed
     THEN /\ SetFrame(t, [frame[t] EXCEPT !.connError = Error(1, "dial", "Connection")])
          /\ Connected' = FALSE
          /\ UNCHANGED connection
          /\ Goto(t, "ConnectReturn")
     ELSE /\ connection' = frame[t].con
          /\ UNCHANGED <<Connected, frame>>
          /\ Goto(t, "ConnectFlag")
  /\ UNCHANGED <<mutex, TimeoutReadWrite, TimeoutConnection, network, calls, wire>>
  /\ UNCHANGED <<LastError, gateway>>

\* s.Connected = true
ConnectFlag(t) ==
  /\ pc[t] = "ConnectFlag"
  /\ Connected' = TRUE
  /\ Goto(t, "ConnectReturn")
  /\ UNCHANGED <<mutex, connection, TimeoutReadWrite, TimeoutConnection,
                 network, calls, wire, frame>>
  /\ UNCHANGED <<LastError, gateway>>

\* return connError
ConnectReturn(t) ==
  /\ pc[t] = "ConnectReturn"
  /\ SetFrame(t, EmptyFrame)
  /\ Goto(t, "idle")
  /\ UNCHANGED <<mutex, session, network, calls, wire>>
  /\ UNCHANGED <<LastError, gateway>>

(***************************************************************************)
(* Session.Close.                                                          *)
(***************************************************************************)
CloseCall(t, limit) ==
  /\ pc[t] = "idle"
  /\ calls < limit
  /\ calls' = calls + 1
  /\ SetFrame(t, [EmptyFrame EXCEPT !.op = "Close"])
  /\ Goto(t, "CloseLock")
  /\ UNCHANGED <<mutex, session, network, wire>>
  /\ UNCHANGED <<LastError, gateway>>

\* s.mutex.Lock()
CloseLock(t) ==
  /\ pc[t] = "CloseLock"
  /\ LockAvailable
  /\ mutex' = t
  /\ Goto(t, "CloseCheck")
  /\ UNCHANGED <<session, network, calls, wire, frame>>
  /\ UNCHANGED <<LastError, gateway>>

\* whether Close has a connection to close
CloseAlways(connected) == TRUE
CloseNeeded(connected) == connected

\* if s.Connected { s.Connected = false
CloseCheck(t) ==
  /\ pc[t] = "CloseCheck"
  /\ SetFrame(t, [frame[t] EXCEPT !.sawConnected = Connected])
  /\ IF CloseNeeded(Connected)
     THEN Connected' = FALSE /\ Goto(t, "CloseConn")
     ELSE UNCHANGED Connected /\ Goto(t, "CloseReturn")
  /\ UNCHANGED <<mutex, connection, TimeoutReadWrite, TimeoutConnection,
                 network, calls, wire>>
  /\ UNCHANGED <<LastError, gateway>>

\* closing an open handle may report an error; closing a closed one does
CloseOutcomes(h) == IF h \in open THEN {TRUE, FALSE} ELSE {FALSE}

\* closeErr := s.connection.Close()
CloseConn(t) ==
  /\ pc[t] = "CloseConn"
  /\ \E ok \in CloseOutcomes(connection) :
       SetFrame(t, [frame[t] EXCEPT
           !.ops = @ \o <<[op |-> "Close", what |-> "", h |-> connection,
                           n |-> 0, data |-> <<>>, ok |-> ok]>>,
           !.err = IF ok THEN NoError ELSE Error(1, "close", "Connection")])
  /\ open' = open \ {connection}
  /\ Goto(t, "CloseReturn")
  /\ UNCHANGED <<mutex, session, dialed, inbound, calls, wire>>
  /\ UNCHANGED <<LastError, gateway>>

\* return err, and the deferred s.mutex.Unlock()
CloseReturn(t) ==
  /\ pc[t] = "CloseReturn"
  /\ mutex' = 0
  /\ SetFrame(t, EmptyFrame)
  /\ Goto(t, "idle")
  /\ UNCHANGED <<session, network, calls, wire>>
  /\ UNCHANGED <<LastError, gateway>>


(***************************************************************************)
(* The connection: deadlines, writes and reads.                            *)
(***************************************************************************)
\* one entry of a call's history
Op(kind, what, h, n, data, ok) ==
  [op |-> kind, what |-> what, h |-> h, n |-> n, data |-> data, ok |-> ok]

InboundOf(h) == IF h \in DOMAIN inbound THEN inbound[h] ELSE <<>>

\* net.Conn.Write: fails on a closed handle, and may fail on an open one
WriteOutcomes(h) == IF h \in open THEN {TRUE, FALSE} ELSE {FALSE}

ReadUpTo(h, n) ==
  LET inb == InboundOf(h)
      k == IF Len(inb) < n THEN Len(inb) ELSE n
  IN  IF h \notin open THEN [ok |-> FALSE, data |-> <<>>, rest |-> inb]
      ELSE [ok |-> TRUE, data |-> SubSeq(inb, 1, k),
            rest |-> SubSeq(inb, k + 1, Len(inb))]

\* io.ReadFull(s.connection, buf) with len(buf) = n: exactly n bytes, or an
\* error after taking the bytes that did arrive
ReadFull(h, n) ==
  LET inb == InboundOf(h)
  IN  IF h \notin open THEN [ok |-> FALSE, data |-> <<>>, rest |-> inb]
      ELSE IF Len(inb) >= n
      THEN [ok |-> TRUE, data |-> SubSeq(inb, 1, n),
            rest |-> SubSeq(inb, n + 1, Len(inb))]
      ELSE [ok |-> FALSE, data |-> inb, rest |-> <<>>]

\* a fixed-size array after a read that stored data at its start
Overwrite(buf, data) == data \o SubSeq(buf, Len(data) + 1, Len(buf))

\* s.updateWriteDeadline()
updateWriteDeadline(what) ==
  Op("SetWriteDeadline", what, connection, TimeoutReadWrite, <<>>, TRUE)

\* s.updateReadDeadline()
WriteDeadlineForRead(what) ==
  Op("SetWriteDeadline", what, connection, TimeoutReadWrite, <<>>, TRUE)

updateReadDeadline(what) ==
  Op("SetReadDeadline", what, connection, TimeoutReadWrite, <<>>, TRUE)

\* CallChain.do runs its callback only when no error is recorded
DoAlways(sc) == TRUE
DoRuns(sc) == sc = NoError

\* CallChain.do whose callback was not run
Skip(t, next) ==
  /\ Goto(t, next)
  /\ UNCHANGED <<frame, wire, inbound>>

\* what the peer may send on h: nothing, or one of answers that fits
Answers(h, answers) ==
  {<<>>} \cup {r \in answers : Len(InboundOf(h)) + Len(r) <= MaxInbound}

\* a callback that refreshes the write deadline and writes b; f is the
\* frame with the callback's assignments made; the peer answers the write
\* that completes a request
WriteStep(t, f, what, b, last, answers, next) ==
  \E ok \in WriteOutcomes(connection) :
    \E r \in (IF last /\ ok THEN Answers(connection, answers) ELSE {<<>>}) :
      /\ SetFrame(t, [f EXCEPT
             !.ops = f.ops \o <<updateWriteDeadline(what),
                                Op("Write", what, connection, Len(b), b, ok)>>,
             !.sc = IF ok THEN NoError ELSE Error(1, "write", "Network")])
      /\ wire' = Append(wire, f.callId)
      /\ inbound' = IF last /\ ok
                    THEN [inbound EXCEPT ![connection] = @ \o r]
                    ELSE inbound
      /\ Goto(t, next)

\* the history of a callback that refreshes the read deadline and reads
ReadOps(f, what, n, r) ==
  f.ops \o <<updateReadDeadline(what),
             Op("Read", what, connection, n, r.data, r.ok)>>

ReadError(r) == IF r.ok THEN NoError ELSE Error(1, "read", "Network")

\* what a read leaves of the inbound bytes
Consume(r) ==
  IF connection \in DOMAIN inbound
  THEN [inbound EXCEPT ![connection] = r.rest]
  ELSE inbound

(***************************************************************************)
(* Session.Request.                                                        *)
(***************************************************************************)
RequestCall(t, request, response, limit) ==
  /\ pc[t] = "idle"
  /\ calls < limit
  /\ calls' = calls + 1
  /\ SetFrame(t, [EmptyFrame EXCEPT !.op = "Request", !.request = request,
         !.response = response, !.response0 = response, !.callId = calls + 1])
  /\ Goto(t, "RequestLock")
  /\ UNCHANGED <<mutex, session, network, wire>>
  /\ UNCHANGED <<LastError, gateway>>

\* s.mutex.Lock()
RequestLock(t) ==
  /\ pc[t] = "RequestLock"
  /\ LockAvailable
  /\ mutex' = t
  /\ Goto(t, "RequestCheck")
  /\ UNCHANGED <<session, network, calls, wire, frame>>
  /\ UNCHANGED <<LastError, gateway>>

\* the precondition of the exchange
SkipConnectedCheck(connected) == FALSE
NotConnected(connected) == ~connected

\* if requestType == nano_api.RequestType_INVALID { panic
InvalidTypeIgnored(type) == FALSE
InvalidType(type) == type = RequestType_INVALID

\* if !s.Connected { err = Not connected } else { resolve the request type;
\* panic if it is INVALID
RequestCheck(t) ==
  /\ pc[t] = "RequestCheck"
  /\ IF NotConnected(Connected)
     THEN /\ SetFrame(t, [frame[t] EXCEPT !.sawConnected = Connected,
                 !.err = Error(1, "Not connected", "Network")])
          /\ Goto(t, "Return")
     ELSE LET type == ResolveRequestType(frame[t].request.name)
          IN  /\ SetFrame(t, [frame[t] EXCEPT !.sawConnected = Connected,
                     !.requestType = type])
              /\ IF InvalidType(type)
                 THEN Goto(t, "Panic")
                 ELSE Goto(t, "WritePreamble")
  /\ UNCHANGED <<mutex, session, network, calls, wire>>
  /\ UNCHANGED <<LastError, gateway>>

\* the request preamble
SwappedPreamble ==
  <<PROTOCOL_PREAMBLE_LEAD, PROTOCOL_ENCODING, VERSION_MINOR, VERSION_MAJOR>>
RequestPreamble ==
  <<PROTOCOL_PREAMBLE_LEAD, PROTOCOL_ENCODING, VERSION_MAJOR, VERSION_MINOR>>

WritePreamble(t) ==
  /\ pc[t] = "WritePreamble"
  /\ IF DoRuns(frame[t].sc)
     THEN WriteStep(t, [frame[t] EXCEPT !.preamble = RequestPreamble],
                    "preamble", RequestPreamble, FALSE, {}, "MarshalHeader")
     ELSE Skip(t, "MarshalHeader")
  /\ UNCHANGED <<mutex, session, open, dialed, calls>>
  /\ UNCHANGED <<LastError, gateway>>

MarshalError == Error(1, "marshal", "Marshalling")

\* headerData, err = proto.Marshal(requestHeader)
MarshalHeader(t) ==
  /\ pc[t] = "MarshalHeader"
  /\ IF DoRuns(frame[t].sc)
     THEN LET m == Marshal([Id |-> frame[t].requestType, wellFormed |-> TRUE])
          IN  /\ SetFrame(t, [frame[t] EXCEPT !.headerData = m.data,
                     !.ops = @ \o <<Op("Marshal", "header", 0, 0, m.data, m.ok)>>,
                     !.sc = IF m.ok THEN NoError ELSE MarshalError])
              /\ Goto(t, "WriteHeaderLen")
              /\ UNCHANGED <<wire, inbound>>
     ELSE Skip(t, "WriteHeaderLen")
  /\ UNCHANGED <<mutex, session, open, dialed, calls>>
  /\ UNCHANGED <<LastError, gateway>>

WriteHeaderLen(t) ==
  /\ pc[t] = "WriteHeaderLen"
  /\ IF DoRuns(frame[t].sc)
     THEN LET b == BigEndianPutUint32(Len(frame[t].headerData))
          IN  WriteStep(t, [frame[t] EXCEPT !.bufLen = b], "headerLen", b,
                        FALSE, {}, "WriteHeader")
     ELSE Skip(t, "WriteHeader")
  /\ UNCHANGED <<mutex, session, open, dialed, calls>>
  /\ UNCHANGED <<LastError, gateway>>

WriteHeader(t) ==
  /\ pc[t] = "WriteHeader"
  /\ IF DoRuns(frame[t].sc)
     THEN WriteStep(t, frame[t], "header", frame[t].headerData, FALSE,
                    {}, "MarshalRequest")
     ELSE Skip(t, "MarshalRequest")
  /\ UNCHANGED <<mutex, session, open, dialed, calls>>
  /\ UNCHANGED <<LastError, gateway>>

\* msgBuffer, err = proto.Marshal(request)
MarshalRequest(t) ==
  /\ pc[t] = "MarshalRequest"
  /\ IF DoRuns(frame[t].sc)
     THEN LET m == Marshal(frame[t].request)
          IN  /\ SetFrame(t, [frame[t] EXCEPT !.msgBuffer = m.data,
                     !.ops = @ \o <<Op("Marshal", "payload", 0, 0, m.data, m.ok)>>,
                     !.sc = IF m.ok THEN NoError ELSE MarshalError])
              /\ Goto(t, "WritePayloadLen")
              /\ UNCHANGED <<wire, inbound>>
     ELSE Skip(t, "WritePayloadLen")
  /\ UNCHANGED <<mutex, session, open, dialed, calls>>
  /\ UNCHANGED <<LastError, gateway>>

WritePayloadLen(t) ==
  /\ pc[t] = "WritePayloadLen"
  /\ IF DoRuns(frame[t].sc)
     THEN LET b == BigEndianPutUint32(Len(frame[t].msgBuffer))
          IN  WriteStep(t, [frame[t] EXCEPT !.bufLen = b], "payloadLen", b,
                        FALSE, {}, "WritePayload")
     ELSE Skip(t, "WritePayload")
  /\ UNCHANGED <<mutex, session, open, dialed, calls>>
  /\ UNCHANGED <<LastError, gateway>>

WritePayload(t, answers) ==
  /\ pc[t] = "WritePayload"
  /\ IF DoRuns(frame[t].sc)
     THEN WriteStep(t, frame[t], "payload", frame[t].msgBuffer, TRUE,
                    answers, "ReadPreamble")
     ELSE Skip(t, "ReadPreamble")
  /\ UNCHANGED <<mutex, session, open, dialed, calls>>
  /\ UNCHANGED <<LastError, gateway>>


\* byte 0 is not the lead byte, or byte 1 is not the encoding
InvalidPreamble(p) ==
  p[1] # PROTOCOL_PREAMBLE_LEAD \/ p[2] # PROTOCOL_ENCODING

\* byte 2, the peer's major version, is beyond the supported one
VersionAtLeast(p) == p[3] >= SupportedMajor
VersionTooNew(p) == p[3] > SupportedMajor

\* the validation of a response preamble that was read in full
PreambleError(p) ==
  IF InvalidPreamble(p) THEN Error(1, "Invalid preamble", "Network")
  ELSE IF VersionTooNew(p) THEN Error(1, "Unsupported API version", "API")
  ELSE NoError

\* read and verify the preamble
ReadPreamble(t) ==
  /\ pc[t] = "ReadPreamble"
  /\ IF DoRuns(frame[t].sc)
     THEN LET r == ReadFull(connection, 4)
              p == Overwrite(frame[t].preamble, r.data)
              e == PreambleError(p)
          IN  /\ SetFrame(t, [frame[t] EXCEPT !.preamble = p,
                     !.ops = ReadOps(frame[t], "preamble", 4, r) \o
                       (IF r.ok
                        THEN <<Op("Validate", "preamble", 0, 4, p, e = NoError)>>
                        ELSE <<>>),
                     !.sc = IF r.ok THEN e ELSE ReadError(r)])
              /\ wire' = Append(wire, frame[t].callId)
              /\ inbound' = Consume(r)
              /\ Goto(t, "ReadHeaderLen")
     ELSE Skip(t, "ReadHeaderLen")
  /\ UNCHANGED <<mutex, session, open, dialed, calls>>
  /\ UNCHANGED <<LastError, gateway>>

ReadHeaderLen(t) ==
  /\ pc[t] = "ReadHeaderLen"
  /\ IF DoRuns(frame[t].sc)
     THEN LET r == ReadFull(connection, 4)
          IN  /\ SetFrame(t, [frame[t] EXCEPT
                     !.bufLen = Overwrite(frame[t].bufLen, r.data),
                     !.ops = ReadOps(frame[t], "headerLen", 4, r),
                     !.sc = ReadError(r)])
              /\ wire' = Append(wire, frame[t].callId)
              /\ inbound' = Consume(r)
              /\ Goto(t, "ReadHeader")
     ELSE Skip(t, "ReadHeader")
  /\ UNCHANGED <<mutex, session, open, dialed, calls>>
  /\ UNCHANGED <<LastError, gateway>>

\* bufResponseHeader = make([]byte, Uint32(bufLen)), then ReadFull into it;
\* the buffer is kept as the bytes that arrived
ReadHeader(t) ==
  /\ pc[t] = "ReadHeader"
  /\ IF DoRuns(frame[t].sc)
     THEN LET n == BigEndianUint32(frame[t].bufLen)
              r == ReadFull(connection, n)
          IN  /\ SetFrame(t, [frame[t] EXCEPT
                     !.bufResponseHeader = r.data,
                     !.ops = ReadOps(frame[t], "header", n, r),
                     !.sc = ReadError(r)])
              /\ wire' = Append(wire, frame[t].callId)
              /\ inbound' = Consume(r)
              /\ Goto(t, "UnmarshalHeader")
     ELSE Skip(t, "UnmarshalHeader")
  /\ UNCHANGED <<mutex, session, open, dialed, calls>>
  /\ UNCHANGED <<LastError, gateway>>

UnmarshalErrorAsNetwork == Error(1, "unmarshal", "Network")
UnmarshalError == Error(1, "unmarshal", "Marshalling")

\* proto.Unmarshal(bufResponseHeader, respHeader)
UnmarshalHeader(t) ==
  /\ pc[t] = "UnmarshalHeader"
  /\ IF DoRuns(frame[t].sc)
     THEN LET u == Unmarshal(frame[t].bufResponseHeader)
          IN  /\ SetFrame(t, [frame[t] EXCEPT
                     !.ops = @ \o <<Op("Unmarshal", "header", 0, 0,
                                       frame[t].bufResponseHeader, u.ok)>>,
                     !.sc = IF u.ok THEN NoError ELSE UnmarshalError])
              /\ Goto(t, "ReadPayloadLen")
              /\ UNCHANGED <<wire, inbound>>
     ELSE Skip(t, "ReadPayloadLen")
  /\ UNCHANGED <<mutex, session, open, dialed, calls>>
  /\ UNCHANGED <<LastError, gateway>>

ReadPayloadLen(t) ==
  /\ pc[t] = "ReadPayloadLen"
  /\ IF DoRuns(frame[t].sc)
     THEN LET r == ReadFull(connection, 4)
          IN  /\ SetFrame(t, [frame[t] EXCEPT
                     !.bufLen = Overwrite(frame[t].bufLen, r.data),
                     !.ops = ReadOps(frame[t], "payloadLen", 4, r),
                     !.sc = ReadError(r),
                     !.afterLen = r.rest])
              /\ wire' = Append(wire, frame[t].callId)
              /\ inbound' = Consume(r)
              /\ Goto(t, "ReadPayload")
     ELSE Skip(t, "ReadPayload")
  /\ UNCHANGED <<mutex, session, open, dialed, calls>>
  /\ UNCHANGED <<LastError, gateway>>

\* bufResponse = make([]byte, Uint32(bufLen)), then ReadFull into it
ReadPayload(t) ==
  /\ pc[t] = "ReadPayload"
  /\ IF DoRuns(frame[t].sc)
     THEN LET n == BigEndianUint32(frame[t].bufLen)
              r == ReadFull(connection, n)
          IN  /\ SetFrame(t, [frame[t] EXCEPT
                     !.bufResponse = r.data,
                     !.ops = ReadOps(frame[t], "payload", n, r),
                     !.sc = ReadError(r)])
              /\ wire' = Append(wire, frame[t].callId)
              /\ inbound' = Consume(r)
              /\ Goto(t, "UnmarshalResponse")
     ELSE Skip(t, "UnmarshalResponse")
  /\ UNCHANGED <<mutex, session, open, dialed, calls>>
  /\ UNCHANGED <<LastError, gateway>>

\* proto.Unmarshal(bufResponse, response)
UnmarshalResponse(t) ==
  /\ pc[t] = "UnmarshalResponse"
  /\ IF DoRuns(frame[t].sc)
     THEN LET u == Unmarshal(frame[t].bufResponse)
          IN  /\ SetFrame(t, [frame[t] EXCEPT
                     !.response = [Id |-> u.Id],
                     !.ops = @ \o <<Op("Unmarshal", "payload", 0, 0,
                                       frame[t].bufResponse, u.ok)>>,
                     !.sc = IF u.ok THEN NoError ELSE UnmarshalError])
              /\ Goto(t, "Failure")
              /\ UNCHANGED <<wire, inbound>>
     ELSE Skip(t, "Failure")
  /\ UNCHANGED <<mutex, session, open, dialed, calls>>
  /\ UNCHANGED <<LastError, gateway>>

\* CallChain.failure runs its callback only when an error is recorded
FailureRuns(sc) == sc # NoError

FailureDisconnects(t) ==
  /\ pc[t] = "Failure"
  /\ IF FailureRuns(frame[t].sc)
     THEN /\ SetFrame(t, [frame[t] EXCEPT !.errInner = frame[t].sc])
          /\ Connected' = FALSE
     ELSE UNCHANGED <<frame, Connected>>
  /\ Goto(t, "Return")
  /\ UNCHANGED <<mutex, connection, TimeoutReadWrite, TimeoutConnection,
                 network, calls, wire>>
  /\ UNCHANGED <<LastError, gateway>>

\* .failure(func() { err = sc.err }): err is the variable declared inside
\* the connected branch (line 467), not the one Request returns (line 461)
Failure(t) ==
  /\ pc[t] = "Failure"
  /\ IF FailureRuns(frame[t].sc)
     THEN SetFrame(t, [frame[t] EXCEPT !.errInner = frame[t].sc])
     ELSE UNCHANGED frame
  /\ Goto(t, "Return")
  /\ UNCHANGED <<mutex, session, network, calls, wire>>
  /\ UNCHANGED <<LastError, gateway>>

\* no other thread is inside a Request
Quiet(t) == \A u \in Threads \ {t} : frame[u].op # "Request"

ReturnKeepsLock(t) ==
  /\ pc[t] = "Return"
  /\ SetFrame(t, EmptyFrame)
  /\ wire' = IF Quiet(t) THEN <<>> ELSE wire
  /\ Goto(t, "idle")
  /\ UNCHANGED <<mutex, session, network, calls>>
  /\ UNCHANGED <<LastError, gateway>>

\* return err (line 571), and the deferred s.mutex.Unlock()
RequestReturn(t) ==
  /\ pc[t] = "Return"
  /\ mutex' = IF mutex = t THEN 0 ELSE mutex
  /\ SetFrame(t, EmptyFrame)
  /\ wire' = IF Quiet(t) THEN <<>> ELSE wire
  /\ Goto(t, "idle")
  /\ UNCHANGED <<session, network, calls>>
  /\ UNCHANGED <<LastError, gateway>>

PanicKeepsLock(t) ==
  /\ pc[t] = "Panic"
  /\ SetFrame(t, EmptyFrame)
  /\ wire' = IF Quiet(t) THEN <<>> ELSE wire
  /\ Goto(t, "idle")
  /\ UNCHANGED <<mutex, session, network, calls>>
  /\ UNCHANGED <<LastError, gateway>>

\* panic("Invalid request type:...") unwinds through the deferred Unlock
Panic(t) ==
  /\ pc[t] = "Panic"
  /\ mutex' = IF mutex = t THEN 0 ELSE mutex
  /\ SetFrame(t, EmptyFrame)
  /\ wire' = IF Quiet(t) THEN <<>> ELSE wire
  /\ Goto(t, "idle")
  /\ UNCHANGED <<session, network, calls>>
  /\ UNCHANGED <<LastError, gateway>>

(***************************************************************************)
(* The specifications. Spec: one caller at a time, from the Session as     *)
(* constructed, every input and a peer that may answer with any of         *)
(* PeerResponses. SpecConcurrent: every thread calls into a Session that   *)
(* one Connect has connected, with the Core inputs and answers.            *)
(***************************************************************************)
\* the steps a thread takes inside a Connect it has started
ProceedConnect(t) ==
    \/ ConnectStore(t)
    \/ ConnectFlag(t)
    \/ ConnectReturn(t)

\* the steps a thread takes inside a Close or a Request it has started
ProceedLocked(t, answers) ==
    \/ CloseLock(t)
    \/ CloseCheck(t)
    \/ CloseConn(t)
    \/ CloseReturn(t)
    \/ RequestLock(t)
    \/ RequestCheck(t)
    \/ WritePreamble(t)
    \/ MarshalHeader(t)
    \/ WriteHeaderLen(t)
    \/ WriteHeader(t)
    \/ MarshalRequest(t)
    \/ WritePayloadLen(t)
    \/ WritePayload(t, answers)
    \/ ReadPreamble(t)
    \/ ReadHeaderLen(t)
    \/ ReadHeader(t)
    \/ UnmarshalHeader(t)
    \/ ReadPayloadLen(t)
    \/ ReadPayload(t)
    \/ UnmarshalResponse(t)
    \/ Failure(t)
    \/ RequestReturn(t)
    \/ Panic(t)

Proceed(t, answers) == ProceedConnect(t) \/ ProceedLocked(t, answers)

Step(t, answers, limit, strings, requests, responses) ==
    \/ \E cs \in strings : ConnectCall(t, cs, limit)
    \/ CloseCall(t, limit)
    \/ \E m \in requests, r \in responses :
         RequestCall(t, m, r, limit)
    \/ Proceed(t, answers)

Next ==
  Step(1, PeerResponses, MaxCalls, ConnStrings, RequestMessages,
       ResponseMessages)

Spec == Init /\ [][Next]_vars

NextConcurrent ==
  \E t \in Threads :
    Step(t, CorePeerResponses, MaxConcurrentCalls, CoreConnStrings,
         CoreRequestMessages, CoreResponseMessages)

\* the Session after one Connect that succeeded
InitConnected ==
  /\ LastError = NoError
  /\ ServerNotStarted
  /\ mutex = 0
  /\ connection = 1
  /\ Connected = TRUE
  /\ TimeoutReadWrite = DefaultTimeoutReadWrite
  /\ TimeoutConnection = DefaultTimeoutConnection
  /\ open = {1}
  /\ dialed = 1
  /\ inbound = [h \in 1..MaxHandles |-> <<>>]
  /\ calls = 1
  /\ wire = <<>>
  /\ pc = [t \in Threads |-> "idle"]
  /\ frame = [t \in Threads |-> EmptyFrame]

SpecConcurrent == InitConnected /\ [][NextConcurrent]_vars

\* the inputs and the answer of the peer when the threads only call Request
\* and Close
FairRequestMessages == {m \in CoreRequestMessages : m.name # NameInvalid}

FairPeerResponses == {GoodResponse}

NextFair ==
  \E t \in Threads :
    \/ CloseCall(t, MaxFairCalls)
    \/ \E m \in FairRequestMessages, r \in CoreResponseMessages :
         RequestCall(t, m, r, MaxFairCalls)
    \/ ProceedLocked(t, FairPeerResponses)

\* every thread calls Request and Close on a connected Session, and a
\* thread inside a call goes on: the scheduler runs every goroutine that
\* can run, a read or a write ends by its deadline at the latest, and
\* sync.Mutex hands the lock to a goroutine that keeps waiting for it
SpecFair ==
  /\ InitConnected
  /\ [][NextFair]_vars
  /\ \A t \in Threads :
       /\ WF_vars(ProceedLocked(t, FairPeerResponses))
       /\ SF_vars(RequestLock(t) \/ CloseLock(t))


(***************************************************************************)
(* The REST server's pool of Sessions.                                     *)
(***************************************************************************)
MaxInt32 == 2147483647
MinInt32 == -MaxInt32 - 1

\* atomic.AddInt32(&x, 1): the sum wraps around
AddInt32(x) == IF x = MaxInt32 THEN MinInt32 ELSE x + 1

\* Go's a % n for n > 0: the result has the sign of a
GoRem(a, n) ==
  IF a >= 0 THEN a % n ELSE -((((-(a + 1)) % n) + 1) % n)

\* getSession: the new counter, the index and what indexing the pool does
getSession ==
  LET next == AddInt32(nextsession)
      index == IF Poolsize = 0 THEN 0 ELSE GoRem(next, Poolsize)
  IN  [nextsession |-> next, next |-> index,
       result |-> IF Poolsize = 0 THEN "integer divide by zero"
                  ELSE IF index \in 0..(Len(sessions) - 1) THEN "session"
                  ELSE "index out of range"]

\* listen() calls tryConnectNode, which starts with an empty pool
Listen ==
  /\ server.pc = "start"
  /\ sessions' = <<>>
  /\ server' = [server EXCEPT !.pc = "tryConnectNode", !.i = 0,
                   !.err = FALSE, !.from = "listen"]
  /\ UNCHANGED <<Poolsize, nextsession, client, LastError>>

\* one turn of the loop of tryConnectNode: a new Session is appended and
\* connected, and a failed Connect ends the loop; then the return
TryConnectNode ==
  /\ server.pc = "tryConnectNode"
  /\ IF ~server.err /\ server.i < Poolsize
     THEN \E ok \in BOOLEAN :
            /\ sessions' = Append(sessions, ok)
            /\ server' = [server EXCEPT !.i = @ + 1, !.err = ~ok]
     ELSE /\ UNCHANGED sessions
          /\ server' = [server EXCEPT !.pc =
                 IF server.from = "handler" /\ ~server.err
                 THEN "handler" ELSE "serving"]
  /\ UNCHANGED <<Poolsize, nextsession, client, LastError>>

\* handler: if !server.getSession().Connected { tryConnectNode() }; a panic
\* ends the handling of the request
HandlerReconnect ==
  /\ server.pc = "serving"
  /\ server.gets < MaxServed
  /\ LET g == getSession
         reconnect == g.result = "session" /\ ~sessions[g.next + 1]
     IN  /\ nextsession' = g.nextsession
         /\ sessions' = IF reconnect THEN <<>> ELSE sessions
         /\ server' =
              IF reconnect
              THEN [server EXCEPT !.pc = "tryConnectNode", !.i = 0,
                      !.err = FALSE, !.from = "handler", !.gets = @ + 1,
                      !.next = 0, !.result = ""]
              ELSE [server EXCEPT !.gets = @ + 1, !.next = g.next,
                      !.result = g.result,
                      !.pc = IF g.result = "session" THEN "handler"
                             ELSE "serving"]
  /\ UNCHANGED <<Poolsize, client, LastError>>

\* handler: the message types are unknown or the body does not parse, and
\* the handler returns; or server.getSession().Request(protomsg,
\* protoresponse)
HandlerRequest ==
  /\ server.pc = "handler"
  /\ \E valid \in BOOLEAN :
       IF valid
       THEN LET g == getSession
            IN  /\ nextsession' = g.nextsession
                /\ server' = [server EXCEPT !.pc = "serving",
                                !.next = g.next, !.result = g.result]
       ELSE /\ server' = [server EXCEPT !.pc = "serving"]
            /\ UNCHANGED nextsession
  /\ UNCHANGED <<Poolsize, sessions, client, LastError>>

NextGateway ==
    \/ Listen
    \/ TryConnectNode
    \/ HandlerReconnect
    \/ HandlerRequest

\* the REST server with its configuration read, its counter at zero or
\* where 2^31 - 3 calls of getSession leave it
InitGateway ==
  /\ LastError = NoError
  /\ Poolsize \in 1..MaxPool
  /\ sessions = <<>>
  /\ nextsession \in {0, MaxInt32 - 2}
  /\ server = EmptyServer
  /\ mutex = 0
  /\ connection = 0
  /\ Connected = FALSE
  /\ TimeoutReadWrite = 0
  /\ TimeoutConnection = 0
  /\ open = {}
  /\ dialed = 0
  /\ inbound = [h \in 1..MaxHandles |-> <<>>]
  /\ calls = 0
  /\ wire = <<>>
  /\ pc = [t \in Threads |-> "idle"]
  /\ frame = [t \in Threads |-> EmptyFrame]

SpecGateway == InitGateway /\ [][NextGateway]_vars

(***************************************************************************)
(* Session.Query, the exchange of the nano_client package: no mutex, no    *)
(* preamble, the error kept in s.LastError.                                *)
(***************************************************************************)
\* "nano.api.query_"
QueryPrefix ==
  <<"n","a","n","o",".","a","p","i",".","q","u","e","r","y","_">>

NameQueryPing == QueryPrefix \o <<"p","i","n","g">>

\* nano_api.QueryType_UNKOWN
QueryType_UNKOWN == 0

KeyUNKOWN == <<"U","N","K","O","W","N">>

\* nano_api.QueryType_value[key]; a Go map yields 0 for a missing key
QueryType_value(key) ==
  CASE key = KeyUNKOWN -> 0
    [] key = KeyPING -> 1
    [] OTHER -> 0

\* the query type Query derives from the message's declared name
ResolveQueryType(name) ==
  QueryType_value(ToUpper(ReplaceFirst(name, QueryPrefix)))

\* the messages a caller passes to Query: a ping, a ping that cannot be
\* serialized, and a message whose name is no query
QueryMessages ==
  { [name |-> NameQueryPing, Id |-> 1000, wellFormed |-> TRUE],
    [name |-> NameQueryPing, Id |-> 1000, wellFormed |-> FALSE],
    [name |-> NamePing, Id |-> 1000, wellFormed |-> TRUE] }

\* what the peer may answer a query with: two frames, well-formed or not,
\* or a stream cut short
QueryResponses ==
  { Frame(h) \o Frame(b) : h \in {PeerHeader, <<8>>},
                            b \in {PeerPong, <<8>>} }
    \cup { SubSeq(Frame(PeerHeader) \o Frame(PeerPong), 1, k) :
             k \in {2, 5, 8} }

\* the write the code checks the result of: s.updateWriteDeadline(),
\* s.connection.Write(b), if err != nil { s.LastError = Network }
QueryWrite(t, what, b, last, next) ==
  \E ok \in WriteOutcomes(connection) :
    \E r \in (IF last /\ ok THEN Answers(connection, QueryResponses)
                            ELSE {<<>>}) :
      /\ SetFrame(t, [frame[t] EXCEPT
             !.ops = @ \o <<updateWriteDeadline(what),
                            Op("Write", what, connection, Len(b), b, ok)>>])
      /\ LastError' = IF ok THEN LastError
                      ELSE Error(1, "write", "Network")
      /\ inbound' = IF last /\ ok
                    THEN [inbound EXCEPT ![connection] = @ \o r]
                    ELSE inbound
      /\ Goto(t, IF ok THEN next ELSE "QueryReturn")

\* s.updateReadDeadline(), io.ReadFull(s.connection, buf),
\* if err != nil { s.LastError = Network }
QueryRead(t, f, what, n, r, next) ==
  /\ SetFrame(t, [f EXCEPT !.ops = ReadOps(frame[t], what, n, r)])
  /\ LastError' = IF r.ok THEN LastError ELSE ReadError(r)
  /\ inbound' = Consume(r)
  /\ Goto(t, IF r.ok THEN next ELSE "QueryReturn")

QueryCall(t, query, response, limit) ==
  /\ pc[t] = "idle"
  /\ calls < limit
  /\ calls' = calls + 1
  /\ SetFrame(t, [EmptyFrame EXCEPT !.op = "Query", !.request = query,
         !.response = response, !.response0 = response, !.callId = calls + 1])
  /\ Goto(t, "QueryCheck")
  /\ UNCHANGED <<mutex, session, network, wire>>
  /\ UNCHANGED <<LastError, gateway>>

\* s.LastError = nil; if !s.connected { Not connected } else { resolve the
\* query type, panic if it is UNKOWN, serialize the header }
QueryCheck(t) ==
  /\ pc[t] = "QueryCheck"
  /\ IF ~Connected
     THEN /\ LastError' = Error(1, "Not connected", "Network")
          /\ SetFrame(t, [frame[t] EXCEPT !.sawConnected = Connected])
          /\ Goto(t, "QueryReturn")
     ELSE LET type == ResolveQueryType(frame[t].request.name)
              m == Marshal([Id |-> type, wellFormed |-> TRUE])
          IN  IF type = QueryType_UNKOWN
              THEN /\ LastError' = NoError
                   /\ SetFrame(t, [frame[t] EXCEPT
                          !.sawConnected = Connected, !.requestType = type])
                   /\ Goto(t, "QueryPanic")
              ELSE /\ LastError' = IF m.ok THEN NoError ELSE MarshalError
                   /\ SetFrame(t, [frame[t] EXCEPT
                          !.sawConnected = Connected, !.requestType = type,
                          !.headerData = m.data,
                          !.ops = @ \o <<Op("Marshal", "header", 0, 0,
                                            m.data, m.ok)>>])
                   /\ Goto(t, IF m.ok THEN "QueryWriteHeaderLen"
                                      ELSE "QueryReturn")
  /\ UNCHANGED <<mutex, session, network, calls, wire>>
  /\ UNCHANGED gateway

\* binary.BigEndian.PutUint32(buf_len[:], uint32(len(header_data))), then
\* the write of buf_len
QueryWriteHeaderLen(t) ==
  /\ pc[t] = "QueryWriteHeaderLen"
  /\ LET b == BigEndianPutUint32(Len(frame[t].headerData))
     IN  QueryWrite(t, "headerLen", b, FALSE, "QueryWriteHeader")
  /\ UNCHANGED <<mutex, session, open, dialed, calls, wire>>
  /\ UNCHANGED gateway

\* _, err = s.connection.Write(header_data[:]), and directly after it
\* msg_buffer, err := proto.Marshal(query): the result of the write is
\* never examined
QueryWriteHeader(t) ==
  /\ pc[t] = "QueryWriteHeader"
  /\ \E ok \in WriteOutcomes(connection) :
       LET b == frame[t].headerData
           m == Marshal(frame[t].request)
       IN  /\ SetFrame(t, [frame[t] EXCEPT
                  !.msgBuffer = m.data,
                  !.ops = @ \o <<updateWriteDeadline("header"),
                                 Op("Write", "header", connection, Len(b),
                                    b, ok),
                                 Op("Marshal", "payload", 0, 0, m.data,
                                    m.ok)>>])
           /\ LastError' = IF m.ok THEN LastError ELSE MarshalError
           /\ Goto(t, IF m.ok THEN "QueryWritePayloadLen" ELSE "QueryReturn")
  /\ UNCHANGED <<mutex, session, network, calls, wire>>
  /\ UNCHANGED gateway

QueryWritePayloadLen(t) ==
  /\ pc[t] = "QueryWritePayloadLen"
  /\ LET b == BigEndianPutUint32(Len(frame[t].msgBuffer))
     IN  QueryWrite(t, "payloadLen", b, FALSE, "QueryWritePayload")
  /\ UNCHANGED <<mutex, session, open, dialed, calls, wire>>
  /\ UNCHANGED gateway

\* the write of msg_buffer completes the query; the peer answers it
QueryWritePayload(t) ==
  /\ pc[t] = "QueryWritePayload"
  /\ QueryWrite(t, "payload", frame[t].msgBuffer, TRUE, "QueryReadHeaderLen")
  /\ UNCHANGED <<mutex, session, open, dialed, calls, wire>>
  /\ UNCHANGED gateway

QueryReadHeaderLen(t) ==
  /\ pc[t] = "QueryReadHeaderLen"
  /\ LET r == ReadFull(connection, 4)
     IN  QueryRead(t, [frame[t] EXCEPT
                         !.bufLen = Overwrite(frame[t].bufLen, r.data)],
                   "headerLen", 4, r, "QueryReadHeader")
  /\ UNCHANGED <<mutex, session, open, dialed, calls, wire>>
  /\ UNCHANGED gateway

\* buf_response_header := make([]byte, Uint32(buf_len)), ReadFull into it,
\* then proto.Unmarshal(buf_response_header, resp_header), whose failure is
\* reported in the category Network
QueryReadHeader(t) ==
  /\ pc[t] = "QueryReadHeader"
  /\ LET n == BigEndianUint32(frame[t].bufLen)
         r == ReadFull(connection, n)
         u == Unmarshal(r.data)
         ops == ReadOps(frame[t], "header", n, r)
     IN  IF ~r.ok
         THEN QueryRead(t, [frame[t] EXCEPT !.bufResponseHeader = r.data],
                        "header", n, r, "QueryReturn")
         ELSE /\ SetFrame(t, [frame[t] EXCEPT
                     !.bufResponseHeader = r.data,
                     !.ops = ops \o <<Op("Unmarshal", "header", 0, 0,
                                         r.data, u.ok)>>])
              /\ LastError' = IF u.ok THEN LastError
                              ELSE Error(1, "unmarshal", "Network")
              /\ inbound' = Consume(r)
              /\ Goto(t, IF u.ok THEN "QueryReadPayloadLen"
                                 ELSE "QueryReturn")
  /\ UNCHANGED <<mutex, session, open, dialed, calls, wire>>
  /\ UNCHANGED gateway

QueryReadPayloadLen(t) ==
  /\ pc[t] = "QueryReadPayloadLen"
  /\ LET r == ReadFull(connection, 4)
     IN  QueryRead(t, [frame[t] EXCEPT
                         !.bufLen = Overwrite(frame[t].bufLen, r.data),
                         !.afterLen = r.rest],
                   "payloadLen", 4, r, "QueryReadPayload")
  /\ UNCHANGED <<mutex, session, open, dialed, calls, wire>>
  /\ UNCHANGED gateway

\* buf_response := make([]byte, Uint32(buf_len)), ReadFull into it, then
\* proto.Unmarshal(buf_response, response)
QueryReadPayload(t) ==
  /\ pc[t] = "QueryReadPayload"
  /\ LET n == BigEndianUint32(frame[t].bufLen)
         r == ReadFull(connection, n)
         u == Unmarshal(r.data)
         ops == ReadOps(frame[t], "payload", n, r)
     IN  IF ~r.ok
         THEN QueryRead(t, [frame[t] EXCEPT !.bufResponse = r.data],
                        "payload", n, r, "QueryReturn")
         ELSE /\ SetFrame(t, [frame[t] EXCEPT
                     !.bufResponse = r.data,
                     !.response = [Id |-> u.Id],
                     !.ops = ops \o <<Op("Unmarshal", "payload", 0, 0,
                                         r.data, u.ok)>>])
              /\ LastError' = IF u.ok THEN LastError
                              ELSE Error(1, "unmarshal", "Network")
              /\ inbound' = Consume(r)
              /\ Goto(t, "QueryReturn")
  /\ UNCHANGED <<mutex, session, open, dialed, calls, wire>>
  /\ UNCHANGED gateway

\* return result, s.LastError
QueryReturn(t) ==
  /\ pc[t] = "QueryReturn"
  /\ SetFrame(t, EmptyFrame)
  /\ Goto(t, "idle")
  /\ UNCHANGED <<mutex, session, network, calls, wire>>
  /\ UNCHANGED <<LastError, gateway>>

\* panic("Invalid query type:...")
QueryPanic(t) ==
  /\ pc[t] = "QueryPanic"
  /\ SetFrame(t, EmptyFrame)
  /\ Goto(t, "idle")
  /\ UNCHANGED <<mutex, session, network, calls, wire>>
  /\ UNCHANGED <<LastError, gateway>>

NextQuery ==
    \/ \E q \in QueryMessages, r \in ResponseMessages :
         QueryCall(1, q, r, MaxCalls)
    \/ QueryCheck(1)
    \/ QueryWriteHeaderLen(1)
    \/ QueryWriteHeader(1)
    \/ QueryWritePayloadLen(1)
    \/ QueryWritePayload(1)
    \/ QueryReadHeaderLen(1)
    \/ QueryReadHeader(1)
    \/ QueryReadPayloadLen(1)
    \/ QueryReadPayload(1)
    \/ QueryReturn(1)
    \/ QueryPanic(1)

\* the Session as constructed, or after one Connect that succeeded with the
\* defaults of the nano_client package
LegacyTimeoutConnection == 10

InitQuery ==
  /\ LastError = NoError
  /\ ServerNotStarted
  /\ mutex = 0
  /\ \/ /\ connection = 0
        /\ Connected = FALSE
        /\ TimeoutReadWrite = 0
        /\ TimeoutConnection = 0
        /\ open = {}
        /\ dialed = 0
     \/ /\ connection = 1
        /\ Connected = TRUE
        /\ TimeoutReadWrite = DefaultTimeoutReadWrite
        /\ TimeoutConnection = LegacyTimeoutConnection
        /\ open = {1}
        /\ dialed = 1
  /\ inbound = [h \in 1..MaxHandles |-> <<>>]
  /\ calls = 0
  /\ wire = <<>>
  /\ pc = [t \in Threads |-> "idle"]
  /\ frame = [t \in Threads |-> EmptyFrame]

SpecQuery == InitQuery /\ [][NextQuery]_vars



(***************************************************************************)
(* Properties.                                                             *)
(***************************************************************************)
AtReturn(t) == pc[t] = "Return"

\* the thread holds the mutex inside Request
InExchange(t) ==
  frame[t].op = "Request" /\ pc[t] \notin {"idle", "RequestLock"}

LastOp(t) == frame[t].ops[Len(frame[t].ops)]

SomeStepFailed(t) ==
  \E i \in 1..Len(frame[t].ops) : ~frame[t].ops[i].ok

\* the call went through the exchange and none of its steps failed
Completed(t) ==
  AtReturn(t) /\ frame[t].sawConnected /\ ~SomeStepFailed(t)

IsIO(o) == o.op \in {"Write", "Read"}

IoOps(t) == SelectSeq(frame[t].ops, IsIO)

\* C1: whenever a step of a Request on a connected Session failed, Request
\* returns a non-nil error.
C1_FailureIsReturned ==
  \A t \in Threads :
    (AtReturn(t) /\ frame[t].sawConnected /\ SomeStepFailed(t))
      => frame[t].err # NoError

\* once the log moves on from a call, that call does not appear again
NonInterleaved(w) ==
  \A i \in 1..(Len(w) - 1) :
    w[i] # w[i + 1] => \A k \in (i + 2)..Len(w) : w[k] # w[i]

\* C2: the reads and writes of two Request calls on the same Session never
\* interleave, and at most one Request is inside the exchange at any time.
C2_NoInterleaving ==
  /\ NonInterleaved(wire)
  /\ \A t, u \in Threads : (InExchange(t) /\ InExchange(u)) => t = u

\* two calls issued concurrently have both done I/O
C2_Witness ==
  /\ Len(wire) >= 2
  /\ wire[1] # wire[Len(wire)]
  /\ \E t \in Threads : Completed(t)

\* C3: after the first failing step of a Request nothing more is written,
\* read, serialized or deserialized in that call.
C3_StopsAtFirstFailure ==
  \A t \in Threads :
    \A i \in 1..(Len(frame[t].ops) - 1) : frame[t].ops[i].ok

\* a call that failed writing the header bytes and went on to its return
C3_Witness ==
  \E t \in Threads :
    /\ AtReturn(t)
    /\ frame[t].ops # <<>>
    /\ LastOp(t).op = "Write" /\ LastOp(t).what = "header" /\ ~LastOp(t).ok

\* C4: Request on a Session whose connected flag is false returns Network
\* "Not connected" and does nothing to any connection handle.
C4_NotConnected ==
  \A t \in Threads :
    (frame[t].op = "Request" /\ pc[t] \notin {"idle", "RequestLock", "RequestCheck"}
       /\ ~frame[t].sawConnected)
      => /\ AtReturn(t)
         /\ frame[t].err = [Code |-> 1, Message |-> "Not connected",
                            Category |-> "Network"]
         /\ frame[t].ops = <<>>
         /\ wire = <<>>

\* a Request returning on a Session that was connected and then closed
C4_Witness ==
  \E t \in Threads :
    /\ AtReturn(t) /\ ~frame[t].sawConnected
    /\ connection # 0 /\ connection \notin open

ExpectedIo ==
  << <<"Write", "preamble">>, <<"Write", "headerLen">>, <<"Write", "header">>,
     <<"Write", "payloadLen">>, <<"Write", "payload">>,
     <<"Read", "preamble">>, <<"Read", "headerLen">>, <<"Read", "header">>,
     <<"Read", "payloadLen">>, <<"Read", "payload">> >>

\* C5: a Request in which no step fails writes the preamble ['N', 0, major,
\* minor], the header length, the header, the payload length and the
\* payload, then reads the preamble, the header length, the header, the
\* payload length and the payload, each once and in this order.
C5_IoSequence ==
  \A t \in Threads :
    Completed(t) =>
      LET io == IoOps(t)
      IN  /\ [i \in 1..Len(io) |-> <<io[i].op, io[i].what>>] = ExpectedIo
          /\ io[1].data = <<78, 0, VERSION_MAJOR, VERSION_MINOR>>
          /\ Len(io[2].data) = 4 /\ Len(io[4].data) = 4
          /\ io[6].n = 4 /\ io[7].n = 4 /\ io[9].n = 4
          /\ \A i \in 1..Len(io) : io[i].h = io[1].h

C5_Witness ==
  \E t \in Threads : Completed(t) /\ Len(IoOps(t)) = 10

\* a length prefix read as a big-endian unsigned 32-bit integer
ClaimedLength(b) == b[1] * 16777216 + b[2] * 65536 + b[3] * 256 + b[4]

\* C6: if no step fails, Request returns no error and the response message
\* is the deserialization of exactly the N bytes after the payload's
\* length prefix (N the prefix as a big-endian u32); the fields match the
\* payload the peer sent.
C6_ResponseIsPayload ==
  \A t \in Threads :
    Completed(t) =>
      LET n == ClaimedLength(IoOps(t)[9].data)
          body == SubSeq(frame[t].afterLen, 1, n)
      IN  /\ frame[t].err = NoError
          /\ Len(frame[t].afterLen) >= n
          /\ frame[t].response = [Id |-> Unmarshal(body).Id]
          /\ \A v \in {0, 1, 5, 1000} :
               body = Encode(v) => frame[t].response.Id = v

\* a ping with Id = 1000 answered by a pong with Id = 1000
C6_Witness ==
  \E t \in Threads :
    /\ Completed(t)
    /\ frame[t].request.Id = 1000 /\ frame[t].response0.Id = 5
    /\ frame[t].response.Id = 1000

UnsupportedVersion ==
  [Code |-> 1, Message |-> "Unsupported API version", Category |-> "API"]

\* the step that reads the response preamble has run and read it in full
PreambleRead(t) ==
  /\ pc[t] = "ReadHeaderLen"
  /\ \E i \in 1..Len(frame[t].ops) :
       /\ frame[t].ops[i].op = "Read" /\ frame[t].ops[i].what = "preamble"
       /\ frame[t].ops[i].ok

\* C7 as stated: the exchange is stopped with "Unsupported API version"
\* exactly when byte 2 of the response preamble exceeds the major version
\* the client sends.
C7_Original ==
  \A t \in Threads :
    PreambleRead(t) =>
      (frame[t].sc = UnsupportedVersion <=> frame[t].preamble[3] > VERSION_MAJOR)

\* C7: the exchange is stopped with "Unsupported API version" (category
\* API) exactly when the response preamble was read in full, its bytes 0
\* and 1 are the lead byte and the encoding, and its byte 2 exceeds the
\* major version the client sends, whatever byte 3 is; and then nothing
\* more is read and nothing is deserialized.
C7_UnsupportedVersion ==
  \A t \in Threads :
    /\ PreambleRead(t) =>
         (frame[t].sc = UnsupportedVersion
            <=> /\ frame[t].preamble[1] = 78
                /\ frame[t].preamble[2] = 0
                /\ frame[t].preamble[3] > VERSION_MAJOR)
    /\ \A i \in 1..Len(frame[t].ops) :
         (frame[t].ops[i].op = "Validate" /\ ~frame[t].ops[i].ok)
           => i = Len(frame[t].ops)
    /\ frame[t].sc = UnsupportedVersion =>
         /\ frame[t].response = frame[t].response0
         /\ LastOp(t).op = "Validate"

\* a call stopped by a too-new major version with a nonzero minor version
C7_Witness ==
  \E t \in Threads :
    /\ AtReturn(t)
    /\ frame[t].sc = UnsupportedVersion
    /\ frame[t].preamble = <<78, 0, 2, 9>>

\* C8: if fewer bytes arrive than a read asked for (preamble, length
\* prefix, header body or payload body), nothing is deserialized afterwards
\* and the caller's response message is left as supplied.
C8_TruncatedNeverDeserialized ==
  \A t \in Threads :
    \A i \in 1..Len(frame[t].ops) :
      (frame[t].ops[i].op = "Read" /\ Len(frame[t].ops[i].data) < frame[t].ops[i].n)
        => /\ \A j \in (i + 1)..Len(frame[t].ops) :
                frame[t].ops[j].op # "Unmarshal"
           /\ frame[t].response = frame[t].response0

\* a call whose payload body arrived only in part
C8_Witness ==
  \E t \in Threads :
    /\ AtReturn(t)
    /\ frame[t].ops # <<>>
    /\ LastOp(t).op = "Read" /\ LastOp(t).what = "payload"
    /\ Len(LastOp(t).data) > 0 /\ Len(LastOp(t).data) < LastOp(t).n
    /\ frame[t].response0.Id = 5

\* the category the claim gives the failure of a step
ClaimedCategory(o) ==
  CASE o.op \in {"Write", "Read"} -> "Network"
    [] o.op \in {"Marshal", "Unmarshal"} -> "Marshalling"
    [] o.op = "Validate" ->
         IF o.data[1] # 78 \/ o.data[2] # 0 THEN "Network" ELSE "API"
    [] OTHER -> ""

\* C9: the error the call chain records for the first failing step has
\* Code 1 and the category of that step: Network for writes, reads and a
\* wrong lead or encoding byte, Marshalling for serialize and deserialize,
\* API for a too-new major version.
C9_Categories ==
  \A t \in Threads :
    frame[t].sc # NoError =>
      /\ frame[t].ops # <<>>
      /\ ~LastOp(t).ok
      /\ frame[t].sc.Code = 1
      /\ frame[t].sc.Category = ClaimedCategory(LastOp(t))

\* a call whose response header did not deserialize
C9_Witness ==
  \E t \in Threads :
    /\ AtReturn(t)
    /\ frame[t].sc # NoError
    /\ LastOp(t).op = "Unmarshal" /\ LastOp(t).what = "header"

\* C10: between calls, the connection handle is a valid (open) connection
\* if and only if the connected flag is true.
C10_HandleValidIffConnected ==
  (\A t \in Threads : pc[t] = "idle") => (Connected <=> connection \in open)

\* the thread takes a step of the call op
Steps(t, op) == frame[t].op = op /\ pc'[t] # pc[t]

AtConnectReturn(t) == pc[t] = "ConnectReturn"

\* C11: when Connect returns, the Session is connected if and only if
\* Connect returns no error; without an error the newly dialed handle is
\* the one stored.
C11_ConnectedIffNoError ==
  \A t \in Threads :
    AtConnectReturn(t) =>
      /\ Connected <=> frame[t].connError = NoError
      /\ frame[t].connError = NoError =>
           (frame[t].con # 0 /\ connection = frame[t].con)

InvalidSchema ==
  [Code |-> 1, Message |-> "Invalid schema: Use tcp or local.",
   Category |-> "Connection"]

\* C12: for a connection string that parses and whose scheme is neither tcp
\* nor local, Connect returns the Connection error "Invalid schema...",
\* whatever the dial did.
C12_InvalidSchema ==
  \A t \in Threads :
    (AtConnectReturn(t) /\ frame[t].parses
       /\ frame[t].scheme \notin {"tcp", "local"})
      => frame[t].connError = InvalidSchema

AtCloseReturn(t) == pc[t] = "CloseReturn"

\* Close returns no error and has done nothing to any handle when it found
\* the Session not connected; Close leaves the Session not connected, so a
\* second Close in a row finds it so; and Close never closes a handle that
\* is already closed
CloseReturnsClean ==
  \A t \in Threads :
    /\ (AtCloseReturn(t) /\ ~frame[t].sawConnected) =>
         (frame[t].err = NoError /\ frame[t].ops = <<>>)
    /\ AtCloseReturn(t) => ~Connected
    /\ pc[t] = "CloseConn" => connection \in open

\* the steps of a Close that finds the Session not connected
NoOpCloseStep(t) ==
  /\ Steps(t, "Close")
  /\ \/ pc[t] = "CloseCheck" /\ ~Connected
     \/ pc[t] = "CloseReturn" /\ ~frame[t].sawConnected

\* C13: Close on a Session that is not connected returns no error, does
\* nothing to any handle and changes nothing of the Session; so a second
\* Close in a row does nothing, and a handle is closed at most once.
C13_CloseIdempotent ==
  /\ []CloseReturnsClean
  /\ [][\A t \in Threads :
         NoOpCloseStep(t) => UNCHANGED <<session, network>>]_vars

\* a Close returning on a Session that an earlier Close has closed
C13_Witness ==
  \E t \in Threads :
    /\ AtCloseReturn(t) /\ ~frame[t].sawConnected
    /\ connection # 0 /\ connection \notin open

\* C14: no step of Connect changes the connected flag or the connection
\* handle while a Request on the Session is between acquiring and releasing
\* the mutex.
C14_ConnectWaitsForRequest ==
  [][\A t \in Threads : InExchange(t) =>
       \A u \in Threads \ {t} :
         Steps(u, "Connect") => UNCHANGED <<Connected, connection>>]_vars

\* C15: no step of Close closes a handle or changes the connected flag
\* while a Request on the Session is inside its exchange: Close waits for
\* the mutex, and the Request goes on undisturbed.
C15_CloseWaitsForRequest ==
  [][\A t \in Threads : InExchange(t) =>
       \A u \in Threads \ {t} :
         Steps(u, "Close") =>
           /\ pc[u] = "idle" \/ pc[u] = "CloseLock"
           /\ UNCHANGED <<Connected, connection, open, mutex>>
           /\ frame'[t] = frame[t]]_vars

\* a Close waiting for the mutex that a Request holds in mid-exchange
C15_Witness ==
  \E t, u \in Threads :
    /\ InExchange(t) /\ frame[t].ops # <<>>
    /\ frame[u].op = "Close" /\ pc[u] = "CloseLock"

\* C16: on a Session that Close has closed, Request fails with Network
\* "Not connected" and touches no connection, and a Connect that returns an
\* error leaves it so; after a Connect that succeeds, Request reads and
\* writes on the open handle that Connect stored, never on a closed one.
C16_ReuseOnlyAfterConnect ==
  \A t \in Threads :
    /\ (AtReturn(t) /\ Closed) =>
         /\ frame[t].err = [Code |-> 1, Message |-> "Not connected",
                            Category |-> "Network"]
         /\ frame[t].ops = <<>>
    /\ (AtConnectReturn(t) /\ frame[t].closed
          /\ frame[t].connError # NoError) => ~Connected
    /\ frame[t].op = "Request" =>
         \A i \in 1..Len(frame[t].ops) :
           IsIO(frame[t].ops[i]) =>
             /\ frame[t].ops[i].h = connection
             /\ frame[t].ops[i].h \in open

\* C17: a Request on a connected Session whose message resolves to no
\* request type, or to INVALID, panics: it does not reach its return, and
\* nothing is serialized or written; no header with type code 0 is ever
\* serialized.
C17_InvalidTypePanics ==
  \A t \in Threads :
    /\ (frame[t].op = "Request"
          /\ pc[t] \notin {"idle", "RequestLock", "RequestCheck"}
          /\ frame[t].sawConnected
          /\ ResolveRequestType(frame[t].request.name) = RequestType_INVALID)
         => /\ pc[t] = "Panic"
            /\ frame[t].ops = <<>>
            /\ frame[t].err = NoError
    /\ \A i \in 1..Len(frame[t].ops) :
         (frame[t].ops[i].op = "Marshal" /\ frame[t].ops[i].what = "header")
           => frame[t].ops[i].data # Encode(RequestType_INVALID)

\* a Request with a response message as its request panicking
C17_Witness ==
  \E t \in Threads :
    /\ pc[t] = "Panic" /\ frame[t].sawConnected
    /\ frame[t].request.name = NameResPing

\* the deadline refresh that precedes a read or a write
DeadlineOf(o) ==
  IF o.op = "Write" THEN "SetWriteDeadline" ELSE "SetReadDeadline"

\* C18: in Request every write is immediately preceded by a refresh of the
\* write deadline, and every read by a refresh of the read deadline, on the
\* same connection and by TimeoutReadWrite.
C18_DeadlineBeforeEveryIo ==
  \A t \in Threads :
    frame[t].op = "Request" =>
      \A i \in 1..Len(frame[t].ops) :
        IsIO(frame[t].ops[i]) =>
          /\ i > 1
          /\ frame[t].ops[i - 1].op = DeadlineOf(frame[t].ops[i])
          /\ frame[t].ops[i - 1].what = frame[t].ops[i].what
          /\ frame[t].ops[i - 1].h = frame[t].ops[i].h
          /\ frame[t].ops[i - 1].n = TimeoutReadWrite
          /\ TimeoutReadWrite > 0

\* a call that wrote and read everything
C18_Witness ==
  \E t \in Threads :
    /\ AtReturn(t) /\ Len(IoOps(t)) = 10
    /\ LastOp(t).op = "Unmarshal"

\* the name of the length prefix of a frame body
PrefixOf(what) == IF what = "header" THEN "headerLen" ELSE "payloadLen"

\* C19: the 4-byte prefix written before a header or payload body, read
\* as a big-endian unsigned 32-bit integer, is the number of bytes of the
\* body written right after it.
C19_PrefixIsBodyLength ==
  \A t \in Threads :
    LET io == IoOps(t)
    IN  \A i \in 1..Len(io) :
          (io[i].op = "Write" /\ io[i].what \in {"header", "payload"}) =>
            /\ i > 1
            /\ io[i - 1].op = "Write"
            /\ io[i - 1].what = PrefixOf(io[i].what)
            /\ Len(io[i - 1].data) = 4
            /\ ClaimedLength(io[i - 1].data) = Len(io[i].data)

\* a call that wrote a payload body of three bytes
C19_Witness ==
  \E t \in Threads :
    \E i \in 1..Len(frame[t].ops) :
      /\ frame[t].ops[i].op = "Write" /\ frame[t].ops[i].what = "payload"
      /\ Len(frame[t].ops[i].data) = 3

\* a Request on a connected Session is still connected to the handle, and
\* the first thing it does to the handle is to write the request preamble
StartsWithPreamble ==
  \A t \in Threads :
    (frame[t].op = "Request"
       /\ pc[t] \notin {"idle", "RequestLock", "RequestCheck"}) =>
      /\ Connected = frame[t].sawConnected
      /\ Len(frame[t].ops) >= 2 =>
           /\ frame[t].ops[2].op = "Write"
           /\ frame[t].ops[2].what = "preamble"
           /\ frame[t].ops[2].h = connection
           /\ frame[t].ops[2].data
                = <<PROTOCOL_PREAMBLE_LEAD, PROTOCOL_ENCODING,
                    VERSION_MAJOR, VERSION_MINOR>>

\* C20: no step of Request changes the connected flag or the connection
\* handle, whether the call succeeds or fails at any step; and a Request on
\* a connected Session begins by writing the request preamble on that
\* handle, whatever an earlier Request left unread.
C20_RequestKeepsSession ==
  /\ []StartsWithPreamble
  /\ [][\A t \in Threads :
         Steps(t, "Request") => UNCHANGED <<Connected, connection>>]_vars

\* a Request that failed after it read, as the response preamble, bytes
\* that an earlier Request left unread (no answer of the peer starts with 0)
C20_Witness ==
  \E t \in Threads :
    /\ AtReturn(t) /\ SomeStepFailed(t)
    /\ \E i \in 1..Len(frame[t].ops) :
         /\ frame[t].ops[i].op = "Read" /\ frame[t].ops[i].what = "preamble"
         /\ frame[t].ops[i].ok /\ frame[t].ops[i].data[1] = 0

\* C21: between calls every open handle that the Session dialed is the one
\* it references: a handle it no longer references has been closed, so at
\* most one handle is open.
C21_NoStaleHandle ==
  (\A t \in Threads : pc[t] = "idle") =>
    /\ \A h \in open : h = connection
    /\ Cardinality(open) <= 1

\* C22: the mutex is held only by a thread that is inside the critical
\* section of Request or Close; a Request that panicked has released it, so
\* no later Request or Close waits for the aborted call.
C22_PanicReleasesGuard ==
  \A t \in Threads :
    mutex = t =>
      /\ frame[t].op \in {"Request", "Close"}
      /\ pc[t] \notin {"idle", "RequestLock", "CloseLock"}

\* a Request about to unwind from its panic while another call waits for
\* the mutex
C22_Witness ==
  \E t, u \in Threads :
    /\ pc[t] = "Panic" /\ mutex = t
    /\ pc[u] \in {"RequestLock", "CloseLock"}

WaitsForLock(t) == pc[t] \in {"RequestLock", "CloseLock"}

\* C23: every call that holds the mutex of the Session, a Request in its
\* exchange above all, returns and releases it, and every call that waits
\* for the mutex gets it.
C23_EveryCallReturns ==
  \A t \in Threads :
    /\ (mutex = t) ~> (pc[t] = "idle" /\ mutex # t)
    /\ WaitsForLock(t) ~> (mutex = t)

\* a Request and a Close waiting for the mutex while a Request is in the
\* middle of its reads
C23_Witness ==
  \E t \in Threads :
    /\ InExchange(t) /\ Len(IoOps(t)) >= 6
    /\ \E u \in Threads \ {t} : WaitsForLock(u)

\* C24: getSession always returns an element of the pool: whenever it has
\* computed an index, the index is within 0..len(sessions)-1, also after
\* tryConnectNode stopped at a failed Connect and after nextsession has
\* wrapped.
C24_GetSessionInPool ==
  server.result # "" =>
    /\ server.result = "session"
    /\ server.next \in 0..(Len(sessions) - 1)

\* C25: in Session.Query a failed write on the connection (header length,
\* header bytes, payload length or payload bytes) is the last thing the
\* call does: nothing is serialized, written or read after it, and the
\* call returns a Network error.
C25_WriteFailureStopsQuery ==
  \A t \in Threads :
    frame[t].op = "Query" =>
      \A i \in 1..Len(frame[t].ops) :
        (frame[t].ops[i].op = "Write" /\ ~frame[t].ops[i].ok) =>
          /\ i = Len(frame[t].ops)
          /\ pc[t] = "QueryReturn"
          /\ LastError.Code # 0
          /\ LastError.Category = "Network"

=============================================================================
